---- MODULE Spec2Model ----
(***************************************************************************)
(* Model of the ExpressionEvaluator library: LanguageParser::parse turns a *)
(* FilterCondition into a predicate over std::vector<Key>; the predicate   *)
(* builds a name -> value index, evaluates every sub-expression in order   *)
(* (evaluateComparison, evaluateArithmetic) and folds the results with the *)
(* logical operator each sub-expression carries.                           *)
(***************************************************************************)
EXTENDS Integers, Sequences, FiniteSets, TLC

VARIABLES pred, keys, ret, evaluated, lhs, rhs, aop, cop, arith, cmp,
          cond, log, th

vars == <<pred, keys, ret, evaluated, lhs, rhs, aop, cop, arith, cmp,
          cond, log, th>>

(***************************************************************************)
(* Bounds of the model.                                                    *)
(***************************************************************************)
\* longest condition (number of sub-expressions)
MaxSub == 3
\* longest record (number of Keys) when names may repeat
MaxKeys == 2
\* width in bits of the model's stand-in for int64_t
IntBits == 5
\* longest sequence of calls whose outcomes the caller keeps
MaxCalls == 3
\* longest condition object the caller builds while its predicate is in use
MaxOwn == 2

RECURSIVE Pow2(_)
Pow2(n) == IF n = 0 THEN 1 ELSE 2 * Pow2(n - 1)

IntMax == Pow2(IntBits - 1) - 1
IntMin == 0 - Pow2(IntBits - 1)

(***************************************************************************)
(* enums.h                                                                 *)
(***************************************************************************)
ArithmeticOperations == {"ADD", "SUBTRACT", "MULTIPLY", "DIVIDE"}

ComparisonOperations ==
    {"EQUAL", "NOT_EQUAL", "GREATER_THAN", "LESS_THAN", "GREATER_EQUAL", "LESS_EQUAL"}

LogicalOperations == {"AND", "OR", "NOT", "NONE"}

(***************************************************************************)
(* key.h: ValueType = std::variant<int64_t, double, std::string, bool>.    *)
(* A double is kept as the exact fraction n/d in lowest terms (d > 0): on  *)
(* the small operands of the model double arithmetic is exact or rounds to *)
(* a value that compares like the fraction.  A std::string is the sequence *)
(* of its bytes.                                                           *)
(***************************************************************************)
Abs(x) == IF x < 0 THEN 0 - x ELSE x

RECURSIVE Gcd(_, _)
Gcd(a, b) == IF b = 0 THEN a ELSE Gcd(b, a % b)

Int64(x) == [tag |-> "int64_t", n |-> x, d |-> 1, s |-> <<>>, b |-> FALSE]

Double(num, den) ==
    LET g == Gcd(Abs(num), Abs(den))
        sgn == IF den < 0 THEN 0 - 1 ELSE 1
    IN [tag |-> "double", n |-> (sgn * num) \div g, d |-> (sgn * den) \div g,
        s |-> <<>>, b |-> FALSE]

String(bytes) == [tag |-> "string", n |-> 0, d |-> 1, s |-> bytes, b |-> FALSE]

Bool(x) == [tag |-> "bool", n |-> 0, d |-> 1, s |-> <<>>, b |-> x]

NoValue == [tag |-> "none", n |-> 0, d |-> 1, s |-> <<>>, b |-> FALSE]

\* std::variant::index()
index(v) ==
    CASE v.tag = "int64_t" -> 0
      [] v.tag = "double" -> 1
      [] v.tag = "string" -> 2
      [] v.tag = "bool" -> 3

Key(name, value) == [name |-> name, value |-> value]

setValue(record, i, value) == [record EXCEPT ![i].value = value]

(***************************************************************************)
(* filter_structs.h                                                        *)
(***************************************************************************)
UnaryExpression(op, key, value) ==
    [alt |-> "UnaryExpression", op |-> op, key |-> key, value |-> value,
     left_key |-> "", arith_op |-> "", right_key |-> "", comp_op |-> ""]

BinaryExpression(left_key, arith_op, right_key, comp_op, value) ==
    [alt |-> "BinaryExpression", op |-> "", key |-> "", value |-> value,
     left_key |-> left_key, arith_op |-> arith_op, right_key |-> right_key,
     comp_op |-> comp_op]

SubExpression(expr, prev_logical_op) ==
    [expr |-> expr, prev_logical_op |-> prev_logical_op]

(***************************************************************************)
(* How a call ends: it returns a value, throws a ParseException (what() is *)
(* the message; "Key not found: " is followed by the key name), or the     *)
(* process is killed by a signal of the arithmetic unit.                   *)
(***************************************************************************)
Returns(v) == [kind |-> "return", val |-> v, ptr |-> 0, what |-> "", key |-> ""]

\* a returned const ValueType*: the position in the record of the Key pointed into
Pointer(p) == [kind |-> "return", val |-> NoValue, ptr |-> p, what |-> "", key |-> ""]

ParseException(message, keyName) ==
    [kind |-> "throw", val |-> NoValue, ptr |-> 0, what |-> message, key |-> keyName]

Crash == [kind |-> "crash", val |-> NoValue, ptr |-> 0, what |-> "", key |-> ""]

NoCall == [kind |-> "none", val |-> NoValue, ptr |-> 0, what |-> "", key |-> ""]

\* the ParseExceptions the library throws
KeyNotFound(keyName) == ParseException("Key not found: ", keyName)

DivisionByZero == ParseException("Division by zero", "")

ArithmeticTypeMismatch ==
    ParseException("Arithmetic operations require numeric types", "")

ComparisonTypeMismatch ==
    ParseException("Comparison requires operands of the same type", "")

UnsupportedBoolean ==
    ParseException("Unsupported comparison operation for boolean", "")

UnsupportedLogical == ParseException("Unsupported logical operation", "")

UnsupportedArithmetic == ParseException("Unsupported arithmetic operation", "")

UnsupportedComparison == ParseException("Unsupported comparison operation", "")

UnsupportedType == ParseException("Unsupported type for comparison", "")

UnknownExpression == ParseException("Unknown expression type", "")

(***************************************************************************)
(* LanguageParser::evaluateArithmetic.  The result is the set of ways the  *)
(* call can end: one, except where int64_t arithmetic leaves the range of  *)
(* the type (undefined behaviour: the build wraps or traps).               *)
(***************************************************************************)
Wrap(x) == ((x - IntMin) % Pow2(IntBits)) + IntMin

InRange(x) == IntMin <= x /\ x <= IntMax

\* C++ integer division truncates toward zero
TruncDiv(l, r) ==
    IF (l < 0) = (r < 0) THEN Abs(l) \div Abs(r) ELSE 0 - (Abs(l) \div Abs(r))

\* the integer result promoted to a double, as a language with one numeric
\* type would give
Int64Result_AsDouble(x) == {Returns(Double(x, 1))}

\* the integer result computed in a type half as wide (int for int64_t): a
\* result outside that type's range wraps, though it fits the wide one
Int64Result_Narrow(x) ==
    {Returns(Int64(((x + Pow2(IntBits - 2)) % Pow2(IntBits - 1)) - Pow2(IntBits - 2)))}

Int64Result(x) ==
    IF InRange(x) THEN {Returns(Int64(x))} ELSE {Returns(Int64(Wrap(x))), Crash}

\* evaluateArithmetic whose float branch divides without looking at the divisor:
\* IEEE-754 gives an infinity (or NaN), kept here as a fraction over 0
evaluateArithmetic_FloatInf(left, op, right) ==
    IF left.tag = "int64_t" /\ right.tag = "int64_t" THEN
        LET l == left.n
            r == right.n
        IN CASE op = "ADD" -> Int64Result(l + r)
             [] op = "SUBTRACT" -> Int64Result(l - r)
             [] op = "MULTIPLY" -> Int64Result(l * r)
             [] op = "DIVIDE" ->
                    IF r = 0 THEN {DivisionByZero}
                    ELSE Int64Result(TruncDiv(l, r))
             [] OTHER -> {UnsupportedArithmetic}
    ELSE IF left.tag \in {"int64_t", "double"} /\ right.tag \in {"int64_t", "double"} THEN
        LET l == left
            r == right
        IN CASE op = "ADD" -> {Returns(Double(l.n * r.d + r.n * l.d, l.d * r.d))}
             [] op = "SUBTRACT" -> {Returns(Double(l.n * r.d - r.n * l.d, l.d * r.d))}
             [] op = "MULTIPLY" -> {Returns(Double(l.n * r.n, l.d * r.d))}
             [] op = "DIVIDE" ->
                    IF r.n = 0
                    THEN {Returns([tag |-> "double", n |-> l.n, d |-> 0,
                                   s |-> <<>>, b |-> FALSE])}
                    ELSE {Returns(Double(l.n * r.d, l.d * r.n))}
             [] OTHER -> {UnsupportedArithmetic}
    ELSE {ArithmeticTypeMismatch}

\* evaluateArithmetic that looks at the divisor before it looks at the
\* alternatives: a zero right operand of DIVIDE reports "Division by zero" even
\* under a string or a bool; with any other divisor the branches below are those
\* of evaluateArithmetic
evaluateArithmetic_ZeroFirst(left, op, right) ==
    IF op = "DIVIDE" /\ right.tag \in {"int64_t", "double"} /\ right.n = 0
    THEN {DivisionByZero}
    ELSE evaluateArithmetic_FloatInf(left, op, right)

evaluateArithmetic(left, op, right) ==
    IF left.tag = "int64_t" /\ right.tag = "int64_t" THEN
        LET l == left.n
            r == right.n
        IN CASE op = "ADD" -> Int64Result(l + r)
             [] op = "SUBTRACT" -> Int64Result(l - r)
             [] op = "MULTIPLY" -> Int64Result(l * r)
             [] op = "DIVIDE" ->
                    IF r = 0 THEN {DivisionByZero}
                    ELSE Int64Result(TruncDiv(l, r))
             [] OTHER -> {UnsupportedArithmetic}
    ELSE IF left.tag \in {"int64_t", "double"} /\ right.tag \in {"int64_t", "double"} THEN
        \* static_cast<double>(int64_t) of a small integer is the fraction n/1
        LET l == left
            r == right
        IN CASE op = "ADD" -> {Returns(Double(l.n * r.d + r.n * l.d, l.d * r.d))}
             [] op = "SUBTRACT" -> {Returns(Double(l.n * r.d - r.n * l.d, l.d * r.d))}
             [] op = "MULTIPLY" -> {Returns(Double(l.n * r.n, l.d * r.d))}
             [] op = "DIVIDE" ->
                    IF r.n = 0 THEN {DivisionByZero}
                    ELSE {Returns(Double(l.n * r.d, l.d * r.n))}
             [] OTHER -> {UnsupportedArithmetic}
    ELSE {ArithmeticTypeMismatch}

(***************************************************************************)
(* LanguageParser::evaluateComparison                                      *)
(***************************************************************************)
\* strings ordered by length first and by bytes among equal lengths
StringLess_ShortLex(l, r) ==
    \/ Len(l) < Len(r)
    \/ /\ Len(l) = Len(r)
       /\ \E k \in 1..Len(l) :
             /\ \A j \in 1..(k - 1) : l[j] = r[j]
             /\ l[k] < r[k]

\* operator< of std::string: byte-wise lexicographic, a proper prefix is smaller
RECURSIVE StringLess(_, _)
StringLess(l, r) ==
    IF r = <<>> THEN FALSE
    ELSE IF l = <<>> THEN TRUE
    ELSE IF Head(l) # Head(r) THEN Head(l) < Head(r)
    ELSE StringLess(Tail(l), Tail(r))

\* l < r for two values of the alternative T
Less(T, l, r) ==
    CASE T = "int64_t" -> l.n < r.n
      [] T = "double" -> l.n * r.d < r.n * l.d
      [] T = "string" -> StringLess(l.s, r.s)
      [] OTHER -> FALSE

\* compare without the `if constexpr` guards: false < true
compare_BoolOrdered(T, op, l, r) ==
    LET less(x, y) == IF T = "bool" THEN ~x.b /\ y.b ELSE Less(T, x, y)
    IN CASE op = "EQUAL" -> Returns(Bool(l = r))
         [] op = "NOT_EQUAL" -> Returns(Bool(l # r))
         [] op = "GREATER_THAN" -> Returns(Bool(less(r, l)))
         [] op = "LESS_THAN" -> Returns(Bool(less(l, r)))
         [] op = "GREATER_EQUAL" -> Returns(Bool(~less(l, r)))
         [] op = "LESS_EQUAL" -> Returns(Bool(~less(r, l)))
         [] OTHER -> UnsupportedComparison

\* compare with EQUAL answered by "not less than"
compare_EqualIsNotLess(T, op, l, r) ==
    CASE op = "EQUAL" -> Returns(Bool(~Less(T, l, r)))
      [] op = "NOT_EQUAL" -> Returns(Bool(l # r))
      [] op = "GREATER_THAN" ->
            IF T = "bool" THEN UnsupportedBoolean ELSE Returns(Bool(Less(T, r, l)))
      [] op = "LESS_THAN" ->
            IF T = "bool" THEN UnsupportedBoolean ELSE Returns(Bool(Less(T, l, r)))
      [] op = "GREATER_EQUAL" ->
            IF T = "bool" THEN UnsupportedBoolean ELSE Returns(Bool(~Less(T, l, r)))
      [] op = "LESS_EQUAL" ->
            IF T = "bool" THEN UnsupportedBoolean ELSE Returns(Bool(~Less(T, r, l)))
      [] OTHER -> UnsupportedComparison

\* compare reporting an ordering of two booleans as a mismatch of operand types
compare_BoolMismatch(T, op, l, r) ==
    CASE op = "EQUAL" -> Returns(Bool(l = r))
      [] op = "NOT_EQUAL" -> Returns(Bool(l # r))
      [] op = "GREATER_THAN" ->
            IF T = "bool" THEN ComparisonTypeMismatch ELSE Returns(Bool(Less(T, r, l)))
      [] op = "LESS_THAN" ->
            IF T = "bool" THEN ComparisonTypeMismatch ELSE Returns(Bool(Less(T, l, r)))
      [] op = "GREATER_EQUAL" ->
            IF T = "bool" THEN ComparisonTypeMismatch ELSE Returns(Bool(~Less(T, l, r)))
      [] op = "LESS_EQUAL" ->
            IF T = "bool" THEN ComparisonTypeMismatch ELSE Returns(Bool(~Less(T, r, l)))
      [] OTHER -> UnsupportedComparison

\* the generic lambda `compare` instantiated at the alternative T
compare(T, op, l, r) ==
    CASE op = "EQUAL" -> Returns(Bool(l = r))
      [] op = "NOT_EQUAL" -> Returns(Bool(l # r))
      [] op = "GREATER_THAN" ->
            IF T = "bool"
            THEN UnsupportedBoolean
            ELSE Returns(Bool(Less(T, r, l)))
      [] op = "LESS_THAN" ->
            IF T = "bool"
            THEN UnsupportedBoolean
            ELSE Returns(Bool(Less(T, l, r)))
      [] op = "GREATER_EQUAL" ->
            IF T = "bool"
            THEN UnsupportedBoolean
            ELSE Returns(Bool(~Less(T, l, r)))
      [] op = "LESS_EQUAL" ->
            IF T = "bool"
            THEN UnsupportedBoolean
            ELSE Returns(Bool(~Less(T, r, l)))
      [] OTHER -> UnsupportedComparison

\* evaluateComparison promoting an int64_t and a double to double, as the
\* arithmetic does, before it compares them
evaluateComparison_Promote(left, op, right) ==
    IF left.tag \in {"int64_t", "double"} /\ right.tag \in {"int64_t", "double"}
    THEN compare(IF left.tag = right.tag THEN left.tag ELSE "double", op,
                 IF left.tag = right.tag THEN left ELSE Double(left.n, left.d),
                 IF left.tag = right.tag THEN right ELSE Double(right.n, right.d))
    ELSE IF index(left) # index(right)
    THEN ComparisonTypeMismatch
    ELSE IF left.tag \in {"int64_t", "double", "string", "bool"}
         THEN compare(left.tag, op, left, right)
         ELSE UnsupportedType

evaluateComparison(left, op, right) ==
    IF index(left) # index(right)
    THEN ComparisonTypeMismatch
    ELSE IF left.tag \in {"int64_t", "double", "string", "bool"}
         THEN compare(left.tag, op, left, right)
         ELSE UnsupportedType

(***************************************************************************)
(* LanguageParser::parse: the returned closure holds a copy of the         *)
(* condition; calling it is Predicate.                                     *)
(***************************************************************************)
NotCompiled == [compiled |-> FALSE, condition |-> <<>>]

\* parse that validates what it can without a record: it gives no predicate for
\* a tag that cannot be folded or an ordering operator on a bool literal
parse_Validating(condition) ==
    IF \E i \in 1..Len(condition) :
          \/ condition[i].prev_logical_op \notin {"AND", "OR", "NONE"}
          \/ /\ condition[i].expr.value.tag = "bool"
             /\ {condition[i].expr.op, condition[i].expr.comp_op}
                    \cap {"GREATER_THAN", "LESS_THAN", "GREATER_EQUAL", "LESS_EQUAL"} # {}
    THEN [compiled |-> FALSE, condition |-> <<>>]
    ELSE [compiled |-> TRUE, condition |-> condition]

parse(condition) == [compiled |-> TRUE, condition |-> condition]

\* the index filled with emplace: an entry, once made, is kept, so the first
\* Key of a name wins
RECURSIVE BuildKeyMap_FirstWins(_, _, _)
BuildKeyMap_FirstWins(record, i, keyMap) ==
    IF i > Len(record) THEN keyMap
    ELSE BuildKeyMap_FirstWins(record, i + 1,
             [nm \in (DOMAIN keyMap) \cup {record[i].name} |->
                 IF nm \in DOMAIN keyMap THEN keyMap[nm] ELSE i])

\* keyMap[key.getName()] = &key.getValue() for the Keys from position i on:
\* a later Key of the same name replaces the entry
RECURSIVE BuildKeyMap(_, _, _)
BuildKeyMap(record, i, keyMap) ==
    IF i > Len(record) THEN keyMap
    ELSE BuildKeyMap(record, i + 1,
             [nm \in (DOMAIN keyMap) \cup {record[i].name} |->
                 IF nm = record[i].name THEN i ELSE keyMap[nm]])

EmptyKeyMap == [nm \in {} |-> 0]

\* getValueFromKeyMap matching names without regard to letter case
Lower(name) == IF name = "A" THEN "a" ELSE name

getValueFromKeyMap_IgnoreCase(keyMap, keyName) ==
    IF \E nm \in DOMAIN keyMap : Lower(nm) = Lower(keyName)
    THEN Pointer(keyMap[CHOOSE nm \in DOMAIN keyMap : Lower(nm) = Lower(keyName)])
    ELSE KeyNotFound(keyName)

\* getValueFromKeyMap reading keyMap[keyName]: a missing name gets a null
\* pointer, and the caller dereferences it
getValueFromKeyMap_Subscript(keyMap, keyName) ==
    IF keyName \in DOMAIN keyMap
    THEN Pointer(keyMap[keyName])
    ELSE Crash

getValueFromKeyMap(keyMap, keyName) ==
    IF keyName \in DOMAIN keyMap
    THEN Pointer(keyMap[keyName])
    ELSE KeyNotFound(keyName)

\* lines 19-32 of the loop body: the ways computing subResult can end
SubResult(record, keyMap, subExpr) ==
    LET expr == subExpr.expr IN
    IF expr.alt = "UnaryExpression" THEN
        LET keyValue == getValueFromKeyMap(keyMap, expr.key) IN
        IF keyValue.kind # "return" THEN {keyValue}
        ELSE {evaluateComparison(record[keyValue.ptr].value, expr.op, expr.value)}
    ELSE IF expr.alt = "BinaryExpression" THEN
        LET leftValue == getValueFromKeyMap(keyMap, expr.left_key) IN
        IF leftValue.kind # "return" THEN {leftValue}
        ELSE
        LET rightValue == getValueFromKeyMap(keyMap, expr.right_key) IN
        IF rightValue.kind # "return" THEN {rightValue}
        ELSE
        { IF arithResult.kind # "return" THEN arithResult
          ELSE evaluateComparison(arithResult.val, expr.comp_op, expr.value) :
            arithResult \in evaluateArithmetic(record[leftValue.ptr].value,
                                               expr.arith_op,
                                               record[rightValue.ptr].value) }
    ELSE {UnknownExpression}

\* Combine with the OR case folding like AND
Combine_OrIsAnd(result, prev_logical_op, subResult) ==
    CASE prev_logical_op = "AND" -> Returns(Bool(result /\ subResult))
      [] prev_logical_op = "OR" -> Returns(Bool(result /\ subResult))
      [] prev_logical_op = "NONE" -> Returns(Bool(subResult))
      [] OTHER -> UnsupportedLogical

\* Combine with NONE folding into the accumulator like AND
Combine_NoneFolds(result, prev_logical_op, subResult) ==
    CASE prev_logical_op = "AND" -> Returns(Bool(result /\ subResult))
      [] prev_logical_op = "OR" -> Returns(Bool(result \/ subResult))
      [] prev_logical_op = "NONE" -> Returns(Bool(result /\ subResult))
      [] OTHER -> UnsupportedLogical

\* Combine with NONE leaving the accumulator as it is
Combine_NoneKeeps(result, prev_logical_op, subResult) ==
    CASE prev_logical_op = "AND" -> Returns(Bool(result /\ subResult))
      [] prev_logical_op = "OR" -> Returns(Bool(result \/ subResult))
      [] prev_logical_op = "NONE" -> Returns(Bool(result))
      [] OTHER -> UnsupportedLogical

\* Combine with a case for NOT: the accumulator becomes the negated result
Combine_NotNegates(result, prev_logical_op, subResult) ==
    CASE prev_logical_op = "AND" -> Returns(Bool(result /\ subResult))
      [] prev_logical_op = "OR" -> Returns(Bool(result \/ subResult))
      [] prev_logical_op = "NONE" -> Returns(Bool(subResult))
      [] prev_logical_op = "NOT" -> Returns(Bool(~subResult))
      [] OTHER -> UnsupportedLogical

\* lines 35-47: the switch on prev_logical_op
Combine(result, prev_logical_op, subResult) ==
    CASE prev_logical_op = "AND" -> Returns(Bool(result /\ subResult))
      [] prev_logical_op = "OR" -> Returns(Bool(result \/ subResult))
      [] prev_logical_op = "NONE" -> Returns(Bool(subResult))
      [] OTHER -> UnsupportedLogical

\* LoopBody skipping a sub-expression whose result cannot change the accumulator
LoopBody_ShortCircuit(record, keyMap, subExpr, result) ==
    IF \/ subExpr.prev_logical_op = "AND" /\ ~result
       \/ subExpr.prev_logical_op = "OR" /\ result
    THEN {Returns(Bool(result))}
    ELSE { IF subResult.kind # "return" THEN subResult
           ELSE Combine(result, subExpr.prev_logical_op, subResult.val.b) :
             subResult \in SubResult(record, keyMap, subExpr) }

\* LoopBody that looks at the logical tag before it evaluates the sub-expression
LoopBody_TagFirst(record, keyMap, subExpr, result) ==
    IF subExpr.prev_logical_op \notin {"AND", "OR", "NONE"}
    THEN {UnsupportedLogical}
    ELSE { IF subResult.kind # "return" THEN subResult
           ELSE Combine(result, subExpr.prev_logical_op, subResult.val.b) :
             subResult \in SubResult(record, keyMap, subExpr) }

\* one iteration of the loop over condition.sub_expressions
LoopBody(record, keyMap, subExpr, result) ==
    { IF subResult.kind # "return" THEN subResult
      ELSE Combine(result, subExpr.prev_logical_op, subResult.val.b) :
        subResult \in SubResult(record, keyMap, subExpr) }

\* A finished call: how it ended and how many sub-expressions it started on
Finished(out, n) == [out |-> out, evaluated |-> n]

\* Loop that goes on after a failure and throws, at the end, the last one
RECURSIVE LoopDefer(_, _, _, _, _, _)
LoopDefer(condition, record, keyMap, i, result, pending) ==
    IF i > Len(condition)
    THEN {Finished(IF pending.kind = "none" THEN Returns(Bool(result)) ELSE pending,
                   i - 1)}
    ELSE UNION { IF step.kind # "return"
                 THEN LoopDefer(condition, record, keyMap, i + 1, result, step)
                 ELSE LoopDefer(condition, record, keyMap, i + 1, step.val.b, pending) :
                   step \in LoopBody(record, keyMap, condition[i], result) }

Loop_Deferred(condition, record, keyMap, i, result) ==
    LoopDefer(condition, record, keyMap, i, result, NoCall)

\* the loop from sub-expression i on, result being the accumulator so far
RECURSIVE Loop(_, _, _, _, _)
Loop(condition, record, keyMap, i, result) ==
    IF i > Len(condition) THEN {Finished(Returns(Bool(result)), i - 1)}
    ELSE UNION { IF step.kind # "return" THEN {Finished(step, i)}
                 ELSE Loop(condition, record, keyMap, i + 1, step.val.b) :
                   step \in LoopBody(record, keyMap, condition[i], result) }

\* Predicate with the accumulator starting at false
Predicate_SeedFalse(condition, record) ==
    Loop(condition, record, BuildKeyMap(record, 1, EmptyKeyMap), 1, FALSE)

\* Predicate that remembers a failure: once a call has thrown, every later call
\* throws the same exception without looking at its record
Predicate_StickyFailure(condition, record) ==
    IF log # <<>> /\ log[Len(log)].kind = "throw"
    THEN {Finished(log[Len(log)], 0)}
    ELSE Loop(condition, record, BuildKeyMap(record, 1, EmptyKeyMap), 1, TRUE)

\* Predicate taking the first sub-expression's result as it is, whatever its tag
Predicate_FirstAssigns(condition, record) ==
    Loop(IF condition = <<>> THEN condition
         ELSE [condition EXCEPT ![1].prev_logical_op = "NONE"],
         record, BuildKeyMap(record, 1, EmptyKeyMap), 1, TRUE)

\* the closure's body applied to a record
Predicate(condition, record) ==
    Loop(condition, record, BuildKeyMap(record, 1, EmptyKeyMap), 1, TRUE)

(***************************************************************************)
(* The caller: it compiles one condition, builds and mutates a record      *)
(* between calls (std::vector<Key>::push_back, Key::setValue) and calls    *)
(* the predicate.  ret is what the last call gave, until the record is     *)
(* touched again; evaluated is the number of sub-expressions it started.   *)
(***************************************************************************)
Alive == ret.kind # "crash"

Compile(condition) ==
    /\ Alive
    /\ ~pred.compiled
    /\ pred' = parse(condition)
    /\ UNCHANGED <<keys, ret, evaluated, lhs, rhs, aop, cop, arith, cmp, cond, log, th>>

PushKey(key) ==
    /\ Alive
    /\ keys' = Append(keys, key)
    /\ ret' = NoCall
    /\ evaluated' = 0
    /\ UNCHANGED <<pred, lhs, rhs, aop, cop, arith, cmp, cond, log, th>>

SetValue(i, value) ==
    /\ Alive
    /\ i \in 1..Len(keys)
    /\ keys[i].value # value
    /\ keys' = setValue(keys, i, value)
    /\ ret' = NoCall
    /\ evaluated' = 0
    /\ UNCHANGED <<pred, lhs, rhs, aop, cop, arith, cmp, cond, log, th>>

\* the condition a call reads if the lambda captured it by reference
\* ([&condition]): the caller's object as it is now
Captured_ByReference == cond

\* the condition a call reads: the lambda's own copy ([condition])
Captured == pred.condition

\* the caller's vector after a call that took it by value and moved from it
AfterCall_MovedFrom(record) == <<>>

\* the caller's vector after a call: the closure takes it as
\* const std::vector<Key>&, and the index holds const ValueType*
AfterCall(record) == record

Evaluate ==
    /\ Alive
    /\ pred.compiled
    /\ \E call \in Predicate(Captured, keys) :
          /\ ret' = call.out
          /\ evaluated' = call.evaluated
    /\ keys' = AfterCall(keys)
    /\ UNCHANGED <<pred, lhs, rhs, aop, cop, arith, cmp, cond, log, th>>

Names(record) == {record[i].name : i \in 1..Len(record)}

SeqsUpTo(S, n) == UNION {[1..k -> S] : k \in 0..n}

(***************************************************************************)
(* Spec: conditions of up to MaxSub sub-expressions over two expressions   *)
(* and all four logical tags; records with distinct names.                 *)
(***************************************************************************)
FoldValues == {Int64(0), Int64(1), Bool(TRUE)}

FoldKeys == {Key(nm, v) : nm \in {"a", "b"}, v \in FoldValues}

FoldExprs ==
    {UnaryExpression("EQUAL", "a", Int64(1)),
     BinaryExpression("a", "DIVIDE", "b", "NOT_EQUAL", Int64(1))}

FoldSubExprs == {SubExpression(e, t) : e \in FoldExprs, t \in LogicalOperations}

FoldConditions == SeqsUpTo(FoldSubExprs, MaxSub)

Init ==
    /\ pred = NotCompiled
    /\ keys = <<>>
    /\ ret = NoCall
    /\ evaluated = 0
    /\ lhs = NoValue
    /\ rhs = NoValue
    /\ aop = ""
    /\ cop = ""
    /\ arith = NoCall
    /\ cmp = NoCall
    /\ cond = <<>>
    /\ log = <<>>
    /\ th = <<>>

Next ==
    \/ ~pred.compiled /\ \E condition \in FoldConditions : Compile(condition)
    \/ \E key \in FoldKeys : key.name \notin Names(keys) /\ PushKey(key)
    \/ \E i \in 1..Len(keys), value \in FoldValues : SetValue(i, value)
    \/ Evaluate

Spec == Init /\ [][Next]_vars

(***************************************************************************)
(* SpecExpr: conditions of at most one sub-expression, drawn from every    *)
(* combination of operators, key names and literals; records of up to      *)
(* MaxKeys Keys whose names may repeat.                                    *)
(***************************************************************************)
ExprValues == {Int64(0), Int64(1), Double(0, 1), String(<<97>>)}

ExprLiterals == {Int64(1), Double(0, 1), String(<<97>>), Bool(TRUE)}

\* names of the Keys of a record
RecordNames == {"a", "A"}

\* names a Binary right_key may hold: "1" reads like a literal
RightNames == RecordNames \cup {"1"}

ExprKeys == {Key(nm, v) : nm \in RecordNames, v \in ExprValues}

ExprExprs ==
    {UnaryExpression(op, k, v) :
        op \in ComparisonOperations, k \in RecordNames, v \in ExprLiterals}
    \cup
    UNION {{BinaryExpression(l, a, r, c, v) : l \in RecordNames, r \in RightNames} :
        a \in ArithmeticOperations, c \in ComparisonOperations, v \in ExprLiterals}

ExprConditions == {<<>>} \cup {<<SubExpression(e, "NONE")>> : e \in ExprExprs}

NextExpr ==
    \/ ~pred.compiled /\ \E condition \in ExprConditions : Compile(condition)
    \/ Len(keys) < MaxKeys /\ \E key \in ExprKeys : PushKey(key)
    \/ \E i \in 1..Len(keys), value \in ExprValues : SetValue(i, value)
    \/ Evaluate

SpecExpr == Init /\ [][NextExpr]_vars

(***************************************************************************)
(* SpecOps: evaluateArithmetic and evaluateComparison applied to every     *)
(* pair of operands of a set that holds the ends of the integer range.     *)
(***************************************************************************)
OpValues ==
    {Int64(x) : x \in {IntMin, 0 - 1, 0, 1, 2, IntMax}}
    \cup {Double(0, 1), Double(1, 2), Double(0 - 3, 2), Double(2, 1)}
    \cup {String(<<>>), String(<<97>>), String(<<97, 98>>), String(<<98>>)}
    \cup {Bool(TRUE), Bool(FALSE)}

InitOps ==
    /\ pred = NotCompiled
    /\ keys = <<>>
    /\ ret = NoCall
    /\ evaluated = 0
    /\ lhs \in OpValues
    /\ rhs \in OpValues
    /\ aop \in ArithmeticOperations
    /\ cop \in ComparisonOperations
    /\ arith = NoCall
    /\ cmp = NoCall
    /\ cond = <<>>
    /\ log = <<>>
    /\ th = <<>>

Fresh == arith = NoCall /\ cmp = NoCall /\ ret = NoCall

ApplyArithmetic ==
    /\ Fresh
    /\ arith' \in evaluateArithmetic(lhs, aop, rhs)
    /\ UNCHANGED <<pred, keys, ret, evaluated, lhs, rhs, aop, cop, cmp, cond, log, th>>

ApplyComparison ==
    /\ Fresh
    /\ cmp' = evaluateComparison(lhs, cop, rhs)
    /\ UNCHANGED <<pred, keys, ret, evaluated, lhs, rhs, aop, cop, arith, cond, log, th>>

\* (x aop y) cop literal on the record {x: lhs, y: rhs}, compiled and called
EvaluateBinary(literal) ==
    /\ Fresh
    /\ pred' = parse(<<SubExpression(BinaryExpression("x", aop, "y", cop, literal),
                                     "NONE")>>)
    /\ keys' = <<Key("x", lhs), Key("y", rhs)>>
    /\ \E call \in Predicate(pred'.condition, keys') :
          /\ ret' = call.out
          /\ evaluated' = call.evaluated
    /\ UNCHANGED <<lhs, rhs, aop, cop, arith, cmp, cond, log, th>>

OpLiterals == {Int64(0), Double(1, 2), String(<<97>>), Bool(TRUE)}

NextOps ==
    \/ ApplyArithmetic
    \/ ApplyComparison
    \/ \E literal \in OpLiterals : EvaluateBinary(literal)

SpecOps == InitOps /\ [][NextOps]_vars

(***************************************************************************)
(* SpecCalls: one predicate called again and again while the caller        *)
(* changes the record between the calls (setValue, push_back, a new        *)
(* vector); log keeps the outcome of every call in order.                  *)
(***************************************************************************)
\* the caller goes on with a new, empty std::vector<Key>
ClearKeys ==
    /\ Alive
    /\ keys # <<>>
    /\ keys' = <<>>
    /\ ret' = NoCall
    /\ evaluated' = 0
    /\ UNCHANGED <<pred, lhs, rhs, aop, cop, arith, cmp, cond, log, th>>

\* eval(keys) by a caller that keeps what every call gave
Call ==
    /\ Alive
    /\ pred.compiled
    /\ Len(log) < MaxCalls
    /\ \E call \in Predicate(Captured, keys) :
          /\ ret' = call.out
          /\ evaluated' = call.evaluated
          /\ log' = Append(log, call.out)
    /\ keys' = AfterCall(keys)
    /\ UNCHANGED <<pred, lhs, rhs, aop, cop, arith, cmp, cond, th>>

CallValues == {Int64(0), Int64(1), Bool(TRUE), Bool(FALSE)}

CallKeys == {Key(nm, v) : nm \in {"a", "b"}, v \in CallValues}

CallExprs ==
    {UnaryExpression("EQUAL", "a", Int64(1)),
     UnaryExpression("EQUAL", "a", Bool(TRUE)),
     BinaryExpression("a", "DIVIDE", "b", "NOT_EQUAL", Int64(1))}

CallConditions ==
    {<<>>}
    \cup {<<SubExpression(e, "NONE")>> : e \in CallExprs}
    \cup {<<SubExpression(e1, "NONE"), SubExpression(e2, t)>> :
              e1 \in CallExprs, e2 \in CallExprs, t \in {"AND", "OR"}}

NextCalls ==
    \/ ~pred.compiled /\ \E condition \in CallConditions : Compile(condition)
    \/ \E key \in CallKeys : key.name \notin Names(keys) /\ PushKey(key)
    \/ \E i \in 1..Len(keys), value \in CallValues : SetValue(i, value)
    \/ ClearKeys
    \/ Call

SpecCalls == Init /\ [][NextCalls]_vars

(***************************************************************************)
(* SpecOwn: the caller keeps its FilterCondition object, compiles it once  *)
(* and goes on changing the object (sub_expressions is a public            *)
(* std::vector) while it calls the predicate.  A change of the object      *)
(* discards what the caller last saw, as a change of the record does.      *)
(***************************************************************************)
\* cond.sub_expressions.push_back(subExpr)
PushSub(subExpr) ==
    /\ Alive
    /\ Len(cond) < MaxOwn
    /\ cond' = Append(cond, subExpr)
    /\ ret' = NoCall
    /\ evaluated' = 0
    /\ UNCHANGED <<pred, keys, lhs, rhs, aop, cop, arith, cmp, log, th>>

\* cond.sub_expressions.pop_back()
PopSub ==
    /\ Alive
    /\ cond # <<>>
    /\ cond' = SubSeq(cond, 1, Len(cond) - 1)
    /\ ret' = NoCall
    /\ evaluated' = 0
    /\ UNCHANGED <<pred, keys, lhs, rhs, aop, cop, arith, cmp, log, th>>

\* cond.sub_expressions[i] = subExpr
SetSub(i, subExpr) ==
    /\ Alive
    /\ i \in 1..Len(cond)
    /\ cond[i] # subExpr
    /\ cond' = [cond EXCEPT ![i] = subExpr]
    /\ ret' = NoCall
    /\ evaluated' = 0
    /\ UNCHANGED <<pred, keys, lhs, rhs, aop, cop, arith, cmp, log, th>>

OwnSubExprs ==
    {SubExpression(UnaryExpression("EQUAL", "a", Int64(1)), "NONE"),
     SubExpression(UnaryExpression("NOT_EQUAL", "a", Int64(1)), "AND"),
     SubExpression(UnaryExpression("EQUAL", "b", Int64(1)), "OR")}

OwnKeys == {Key("a", Int64(0)), Key("a", Int64(1))}

OwnRecords == {<<>>} \cup {<<key>> : key \in OwnKeys}

NextOwn ==
    \/ \E subExpr \in OwnSubExprs : PushSub(subExpr)
    \/ PopSub
    \/ \E i \in 1..Len(cond), subExpr \in OwnSubExprs : SetSub(i, subExpr)
    \/ Compile(cond)
    \/ \E key \in OwnKeys : keys = <<>> /\ PushKey(key)
    \/ \E i \in 1..Len(keys), key \in OwnKeys : SetValue(i, key.value)
    \/ Evaluate

SpecOwn == Init /\ [][NextOwn]_vars

(***************************************************************************)
(* SpecConc: two threads call the one compiled predicate, each on a record *)
(* of its own; their steps interleave.  th[t] is the frame of thread t's   *)
(* call: the record it was given, its keyMap, its place in the loops, and  *)
(* how the call ended; overlapped tells that another call was in flight    *)
(* during a step of this one.                                              *)
(***************************************************************************)
Threads == {1, 2}

IdleCall ==
    [pc |-> "idle", record |-> <<>>, keyMap |-> EmptyKeyMap, i |-> 0,
     result |-> TRUE, out |-> NoCall, overlapped |-> FALSE]

OthersInFlight(t) == \E u \in Threads \ {t} : th[u].pc \in {"index", "loop"}

\* result declared static: one accumulator for all the calls
Accumulator_Static(t) == 1

\* the frame that holds `bool result` of thread t's call: its own
Accumulator(t) == t

\* thread t enters the closure with its record
Begin(t, record) ==
    /\ pred.compiled
    /\ th[t].pc = "idle"
    /\ th' = [th EXCEPT ![t].pc = "index", ![t].record = record, ![t].i = 1,
                        ![t].overlapped = OthersInFlight(t)]
    /\ UNCHANGED <<pred, keys, ret, evaluated, lhs, rhs, aop, cop, arith, cmp, cond, log>>

\* one iteration of `for (const auto& key : keys)`, or its exit to
\* `bool result = true`
IndexStep(t) ==
    /\ th[t].pc = "index"
    /\ IF th[t].i > Len(th[t].record)
       THEN th' = [th EXCEPT ![t].pc = "loop", ![t].i = 1,
                           ![t].overlapped = @ \/ OthersInFlight(t),
                           ![Accumulator(t)].result = TRUE]
       ELSE th' = [th EXCEPT ![t].keyMap = BuildKeyMap(SubSeq(th[t].record, 1, th[t].i),
                                                      th[t].i, @),
                           ![t].i = @ + 1,
                           ![t].overlapped = @ \/ OthersInFlight(t)]
    /\ UNCHANGED <<pred, keys, ret, evaluated, lhs, rhs, aop, cop, arith, cmp, cond, log>>

\* one iteration of the loop over the sub-expressions, or `return result`
LoopStep(t) ==
    /\ th[t].pc = "loop"
    /\ IF th[t].i > Len(Captured)
       THEN th' = [th EXCEPT ![t].pc = "done",
                           ![t].out = Returns(Bool(th[Accumulator(t)].result)),
                           ![t].overlapped = @ \/ OthersInFlight(t)]
       ELSE \E step \in LoopBody(th[t].record, th[t].keyMap, Captured[th[t].i],
                                 th[Accumulator(t)].result) :
               IF step.kind # "return"
               THEN th' = [th EXCEPT ![t].pc = "done", ![t].out = step,
                                   ![t].overlapped = @ \/ OthersInFlight(t)]
               ELSE th' = [th EXCEPT ![t].i = @ + 1,
                                   ![t].overlapped = @ \/ OthersInFlight(t),
                                   ![Accumulator(t)].result = step.val.b]
    /\ UNCHANGED <<pred, keys, ret, evaluated, lhs, rhs, aop, cop, arith, cmp, cond, log>>

\* the caller has taken what the call gave; the frame is gone
Finish(t) ==
    /\ th[t].pc = "done"
    /\ th' = [th EXCEPT ![t] = IdleCall]
    /\ UNCHANGED <<pred, keys, ret, evaluated, lhs, rhs, aop, cop, arith, cmp, cond, log>>

ConcSubExprs ==
    {SubExpression(e, t) : e \in FoldExprs, t \in {"AND", "OR"}}

ConcConditions == SeqsUpTo(ConcSubExprs, 2)

ConcRecords ==
    {<<Key("a", Int64(1))>>,
     <<Key("a", Int64(0)), Key("b", Int64(1))>>,
     <<Key("a", Int64(1)), Key("b", Int64(0))>>,
     <<Key("b", Int64(1)), Key("a", Int64(1))>>}

InitConc ==
    /\ pred = NotCompiled
    /\ keys = <<>>
    /\ ret = NoCall
    /\ evaluated = 0
    /\ lhs = NoValue
    /\ rhs = NoValue
    /\ aop = ""
    /\ cop = ""
    /\ arith = NoCall
    /\ cmp = NoCall
    /\ cond = <<>>
    /\ log = <<>>
    /\ th = [t \in Threads |-> IdleCall]

NextConc ==
    \/ ~pred.compiled /\ \E condition \in ConcConditions : Compile(condition)
    \/ \E t \in Threads, record \in ConcRecords : Begin(t, record)
    \/ \E t \in Threads : IndexStep(t)
    \/ \E t \in Threads : LoopStep(t)
    \/ \E t \in Threads : Finish(t)

SpecConc == InitConc /\ [][NextConc]_vars

(***************************************************************************)
(* SpecEval: the Evaluator class.  Its member evaluator_ is a              *)
(* std::function, empty until initialize assigns it the predicate that     *)
(* LanguageParser::parse returns; pred is that member.  log keeps the      *)
(* conditions passed to initialize, in order.                              *)
(***************************************************************************)
\* what calling an empty std::function throws: not a ParseException
BadFunctionCall ==
    [kind |-> "throw", val |-> NoValue, ptr |-> 0, what |-> "bad_function_call", key |-> ""]

\* initialize that fills evaluator_ only while it is empty
initialize_KeepsFirst(evaluator_, condition) ==
    IF evaluator_.compiled THEN evaluator_ ELSE parse(condition)

\* Evaluator::initialize: the member evaluator_ after the call
initialize(evaluator_, condition) == parse(condition)

\* evaluate whose empty evaluator_ accepts every record
evaluate_DefaultTrue(evaluator_, record) ==
    IF evaluator_.compiled
    THEN Predicate(evaluator_.condition, record)
    ELSE {Finished(Returns(Bool(TRUE)), 0)}

\* Evaluator::evaluate: return evaluator_(keys)
evaluate(evaluator_, record) ==
    IF evaluator_.compiled
    THEN Predicate(evaluator_.condition, record)
    ELSE {Finished(BadFunctionCall, 0)}

\* evaluator.initialize(condition)
Initialize(condition) ==
    /\ Alive
    /\ Len(log) < MaxCalls
    /\ pred' = initialize(pred, condition)
    /\ log' = Append(log, condition)
    /\ ret' = NoCall
    /\ evaluated' = 0
    /\ UNCHANGED <<keys, lhs, rhs, aop, cop, arith, cmp, cond, th>>

\* evaluator.evaluate(keys)
EvaluatorEvaluate ==
    /\ Alive
    /\ \E call \in evaluate(pred, keys) :
          /\ ret' = call.out
          /\ evaluated' = call.evaluated
    /\ keys' = AfterCall(keys)
    /\ UNCHANGED <<pred, lhs, rhs, aop, cop, arith, cmp, cond, log, th>>

EvalValues == {Int64(0), Int64(1), Bool(TRUE)}

EvalKeys == {Key("a", v) : v \in EvalValues}

EvalExprs ==
    {UnaryExpression("EQUAL", "a", Int64(1)),
     UnaryExpression("NOT_EQUAL", "a", Int64(1)),
     BinaryExpression("a", "DIVIDE", "a", "EQUAL", Int64(1))}

EvalConditions ==
    {<<>>} \cup {<<SubExpression(e, "NONE")>> : e \in EvalExprs}

NextEval ==
    \/ \E condition \in EvalConditions : Initialize(condition)
    \/ \E key \in EvalKeys : keys = <<>> /\ PushKey(key)
    \/ \E i \in 1..Len(keys), value \in EvalValues : SetValue(i, value)
    \/ ClearKeys
    \/ EvaluatorEvaluate

SpecEval == Init /\ [][NextEval]_vars

(***************************************************************************)
(* SpecOrder: one sub-expression, Unary or Binary, under a tag the switch  *)
(* folds (NONE) or rejects (NOT), on records where either key may be       *)
(* missing, hold text, or hold a zero divisor.                             *)
(***************************************************************************)
OrderValues == {Int64(0), Int64(1), String(<<97>>)}

OrderKeys == {Key(nm, v) : nm \in {"a", "b"}, v \in OrderValues}

OrderLiterals == {Int64(1), String(<<97>>)}

OrderExprs ==
    {UnaryExpression("EQUAL", "a", literal) : literal \in OrderLiterals}
    \cup {BinaryExpression("a", op, "b", "EQUAL", literal) :
              op \in {"ADD", "DIVIDE"}, literal \in OrderLiterals}

OrderConditions ==
    {<<SubExpression(e, t)>> : e \in OrderExprs, t \in {"NONE", "NOT"}}

NextOrder ==
    \/ ~pred.compiled /\ \E condition \in OrderConditions : Compile(condition)
    \/ \E key \in OrderKeys :
          Len(keys) < MaxKeys /\ key.name \notin Names(keys) /\ PushKey(key)
    \/ \E i \in 1..Len(keys), value \in OrderValues : SetValue(i, value)
    \/ Evaluate

SpecOrder == Init /\ [][NextOrder]_vars

(***************************************************************************)
(* SpecLinear: conditions of one or two sub-expressions, a comparison      *)
(* operator outside the enumeration among them, on records of up to        *)
(* MaxKeys Keys whose names may repeat.                                    *)
(***************************************************************************)
\* static_cast<ComparisonOperations>(6)
OutOfRangeOperation == "6"

LinearValues == {Int64(0), Int64(1), Bool(TRUE)}

LinearKeys == {Key(nm, v) : nm \in {"a", "b"}, v \in LinearValues}

LinearExprs ==
    {UnaryExpression(op, "a", literal) :
        op \in {"EQUAL", "LESS_THAN", OutOfRangeOperation},
        literal \in {Int64(1), Bool(TRUE)}}
    \cup {BinaryExpression("a", "DIVIDE", "b", "EQUAL", Int64(1))}

LinearConditions ==
    {<<SubExpression(e, t)>> : e \in LinearExprs, t \in {"NONE", "NOT"}}
    \cup {<<SubExpression(e1, "NONE"), SubExpression(e2, t)>> :
              e1 \in LinearExprs, e2 \in LinearExprs, t \in {"AND", "OR"}}

NextLinear ==
    \/ ~pred.compiled /\ \E condition \in LinearConditions : Compile(condition)
    \/ Len(keys) < MaxKeys /\ \E key \in LinearKeys : PushKey(key)
    \/ \E i \in 1..Len(keys), value \in LinearValues : SetValue(i, value)
    \/ Evaluate

SpecLinear == Init /\ [][NextLinear]_vars

(***************************************************************************)
(* What the properties below speak of: the compiled condition, and how     *)
(* each of its sub-expressions ends on the current record when taken       *)
(* alone.                                                                  *)
(***************************************************************************)
\* a call of the predicate on the current record has ended
Called == pred.compiled /\ ret.kind # "none"

Cond == pred.condition

Positions == 1..Len(Cond)

KeyMapNow == BuildKeyMap(keys, 1, EmptyKeyMap)

SubOut(i) == CHOOSE o \in SubResult(keys, KeyMapNow, Cond[i]) : TRUE

Tag(i) == Cond[i].prev_logical_op

\* the boolean result of sub-expression i
R(i) == SubOut(i).val.b

\* sub-expression i fails: its evaluation throws, or its tag cannot be folded
SubFails(i) == SubOut(i).kind # "return" \/ Tag(i) \notin {"AND", "OR", "NONE"}

ErrorOf(i) == IF SubOut(i).kind # "return" THEN SubOut(i) ELSE UnsupportedLogical

NoFailure == \A i \in Positions : ~SubFails(i)

FirstFailure == CHOOSE j \in Positions : SubFails(j) /\ \A i \in 1..(j - 1) : ~SubFails(i)

\* the accumulator after sub-expressions 1..i, as the specification folds it
RECURSIVE Acc(_)
Acc(i) ==
    IF i = 0 THEN TRUE
    ELSE CASE Tag(i) = "NONE" -> R(i)
           [] Tag(i) = "AND" -> Acc(i - 1) /\ R(i)
           [] Tag(i) = "OR" -> Acc(i - 1) \/ R(i)

\* the accumulator after sub-expressions k..i when the fold starts with R(k)
RECURSIVE AccFrom(_, _)
AccFrom(k, i) ==
    IF i = k THEN R(k)
    ELSE CASE Tag(i) = "NONE" -> R(i)
           [] Tag(i) = "AND" -> AccFrom(k, i - 1) /\ R(i)
           [] Tag(i) = "OR" -> AccFrom(k, i - 1) \/ R(i)

Tags == [i \in Positions |-> Tag(i)]

(***************************************************************************)
(* C1: when no sub-expression fails, the call returns the left-to-right    *)
(* fold of the sub-expression results, seeded with true, each result       *)
(* combined by its own tag with the accumulator of the ones before it.     *)
(***************************************************************************)
C1_LeftToRightFold ==
    (Called /\ NoFailure) => ret = Returns(Bool(Acc(Len(Cond))))

\* [a NONE, b OR, c AND] with a true and c false: (a OR b) AND c is false
C1_Witness ==
    /\ Called /\ NoFailure
    /\ Tags = <<"NONE", "OR", "AND">>
    /\ R(1) /\ ~R(3)
    /\ ret = Returns(Bool(FALSE))

(***************************************************************************)
(* C3: no short-circuit.  If some sub-expression fails on the record, the  *)
(* call fails, whatever the accumulator and the tags are.                  *)
(***************************************************************************)
C3_NoShortCircuit ==
    (Called /\ \E j \in Positions : SubFails(j)) => ret.kind = "throw"

\* accumulator false before a failing sub-expression tagged AND, a NONE after it
C3_Witness ==
    /\ Called
    /\ Len(Cond) = 3
    /\ ~SubFails(1) /\ ~Acc(1)
    /\ Tag(2) = "AND" /\ SubOut(2).kind = "throw"
    /\ Tag(3) = "NONE" /\ ~SubFails(3)
    /\ ret.kind = "throw"

(***************************************************************************)
(* C4: a failing call ends at the first failing sub-expression, with that  *)
(* sub-expression's error, and starts on no sub-expression after it.       *)
(***************************************************************************)
C4_FirstFailureDecides ==
    (Called /\ \E j \in Positions : SubFails(j)) =>
        /\ ret = ErrorOf(FirstFailure)
        /\ evaluated = FirstFailure

\* two failing sub-expressions with different errors: the first one is reported
C4_Witness ==
    /\ Called
    /\ \E j, k \in Positions :
          /\ j < k
          /\ SubFails(j) /\ \A i \in 1..(j - 1) : ~SubFails(i)
          /\ SubFails(k)
          /\ ErrorOf(j) # ErrorOf(k)
          /\ ret = ErrorOf(j)
          /\ evaluated = j

(***************************************************************************)
(* C5: a sub-expression tagged NONE overwrites the accumulator wherever it *)
(* stands: the result is the fold of the sub-expressions from it on, and   *)
(* is that of the last sub-expression when the last one is tagged NONE.    *)
(***************************************************************************)
C5_NoneOverwrites ==
    (Called /\ NoFailure) =>
        \A k \in Positions :
            Tag(k) = "NONE" => ret = Returns(Bool(AccFrom(k, Len(Cond))))

\* the last sub-expression is tagged NONE and differs from the accumulator before it
C5_Witness ==
    /\ Called /\ NoFailure
    /\ Len(Cond) > 1
    /\ Tag(Len(Cond)) = "NONE"
    /\ Acc(Len(Cond) - 1) # R(Len(Cond))
    /\ ret = Returns(Bool(R(Len(Cond))))

(***************************************************************************)
(* C6 as claimed: the tag of a sub-expression joins it to the one after    *)
(* it, so [e1 AND, e2 OR, e3 NONE] is (r1 AND r2) OR r3 and a chain tagged *)
(* AND, ..., AND, NONE is the conjunction of all results.                  *)
(***************************************************************************)
AndChain ==
    /\ Len(Cond) >= 1
    /\ \A i \in 1..(Len(Cond) - 1) : Tag(i) = "AND"
    /\ Tag(Len(Cond)) = "NONE"

C2_EmptyConditionTrue ==
    (Called /\ Cond = <<>>) => (ret = Returns(Bool(TRUE)) /\ evaluated = 0)

\* the record holds the same name twice, with values of two types
C2_Witness ==
    /\ Called /\ Cond = <<>>
    /\ Len(keys) = 2
    /\ keys[1].name = keys[2].name
    /\ keys[1].value.tag # keys[2].value.tag
    /\ ret = Returns(Bool(TRUE))

(***************************************************************************)
(* C7: a sub-expression that names a key (Unary key, Binary left_key or    *)
(* right_key) which is not, letter for letter, the name of a Key of the    *)
(* record makes the call fail with "Key not found" for such a name; a      *)
(* right_key is looked up like any name.                                   *)
(***************************************************************************)
Referenced(expr) ==
    IF expr.alt = "UnaryExpression" THEN {expr.key}
    ELSE {expr.left_key, expr.right_key}

C8_DifferentVariantsMismatch ==
    (cmp # NoCall /\ lhs.tag # rhs.tag) => cmp = ComparisonTypeMismatch

\* a bool against an int64_t under GREATER_THAN
C8_Witness ==
    /\ lhs.tag = "bool" /\ rhs.tag = "int64_t"
    /\ cop = "GREATER_THAN"
    /\ cmp = ComparisonTypeMismatch

(***************************************************************************)
(* C9: on two bools the four ordering operators fail with "Unsupported     *)
(* comparison operation for boolean" whatever the values; EQUAL and        *)
(* NOT_EQUAL return l = r and l /= r.                                      *)
(***************************************************************************)
OrderingOperations == {"GREATER_THAN", "LESS_THAN", "GREATER_EQUAL", "LESS_EQUAL"}

C9_BooleanComparison ==
    (cmp # NoCall /\ lhs.tag = "bool" /\ rhs.tag = "bool") =>
        /\ cop \in OrderingOperations => cmp = UnsupportedBoolean
        /\ cop = "EQUAL" => cmp = Returns(Bool(lhs.b = rhs.b))
        /\ cop = "NOT_EQUAL" => cmp = Returns(Bool(lhs.b # rhs.b))

\* false LESS_THAN true
C9_Witness ==
    /\ lhs = Bool(FALSE) /\ rhs = Bool(TRUE)
    /\ cop = "LESS_THAN"
    /\ cmp = UnsupportedBoolean

(***************************************************************************)
(* C10: DIVIDE by a zero right operand fails with "Division by zero" for   *)
(* every numeric dividend, in the integer and in the float domain; a       *)
(* Binary DIVIDE sub-expression whose right key holds zero makes the call  *)
(* fail whatever the comparison operator and the literal are.              *)
(***************************************************************************)
Numeric(v) == v.tag \in {"int64_t", "double"}

Zero(v) == Numeric(v) /\ v.n = 0

C10_DivisionByZero ==
    (aop = "DIVIDE" /\ Zero(rhs)) =>
        /\ (arith # NoCall /\ Numeric(lhs)) => arith = DivisionByZero
        /\ (ret # NoCall /\ Numeric(lhs)) => ret = DivisionByZero
        /\ ret # NoCall => ret.kind = "throw"

\* a double divided by the int64_t 0, compared by NOT_EQUAL with a string literal
C10_Witness ==
    /\ aop = "DIVIDE"
    /\ lhs.tag = "double" /\ lhs.n # 0
    /\ rhs = Int64(0)
    /\ cop = "NOT_EQUAL"
    /\ pred.compiled /\ Cond[1].expr.value.tag = "string"
    /\ ret = DivisionByZero

(***************************************************************************)
(* C11: arithmetic with a string or a bool on either side throws           *)
(* "Arithmetic operations require numeric types" under each of the four    *)
(* operators and whatever the other operand is -- a zero right operand of  *)
(* DIVIDE included, which is not reported as a division by zero -- and no  *)
(* coercion makes it return a value; a Binary sub-expression over such a   *)
(* key fails the same way.                                                 *)
(***************************************************************************)
C11_ArithmeticNeedsNumbers ==
    (~Numeric(lhs) \/ ~Numeric(rhs)) =>
        /\ arith # NoCall => arith = ArithmeticTypeMismatch
        /\ ret # NoCall => ret = ArithmeticTypeMismatch

\* a string divided by the int64_t 0
C11_Witness ==
    /\ lhs.tag = "string"
    /\ aop = "DIVIDE"
    /\ rhs = Int64(0)
    /\ arith = ArithmeticTypeMismatch

(***************************************************************************)
(* C12: the alternative of an arithmetic result is int64_t exactly when    *)
(* both operands are int64_t, and double when both are numeric and one of  *)
(* them is a double.  As stated: so a Binary sub-expression over two       *)
(* int64_t keys compared with a double literal, or over a double and an    *)
(* int64_t key compared with an int64_t literal, throws "Type mismatch in  *)
(* comparison", and a double/int64_t sum compared with a double literal    *)
(* returns a boolean.                                                      *)
(***************************************************************************)
Literal == Cond[1].expr.value

BothInt == lhs.tag = "int64_t" /\ rhs.tag = "int64_t"

Mixed == Numeric(lhs) /\ Numeric(rhs) /\ lhs.tag # rhs.tag

C12_ResultVariant ==
    arith.kind = "return" =>
        /\ arith.val.tag = "int64_t" <=> BothInt
        /\ arith.val.tag = "double" <=>
               (Numeric(lhs) /\ Numeric(rhs) /\ "double" \in {lhs.tag, rhs.tag})

\* read over the calls that come back to their caller: an int64_t overflow that
\* traps is left out, so that what fails below is the statement itself
C12_VariantMeetsLiteral ==
    /\ C12_ResultVariant
    /\ (ret # NoCall /\ ret.kind # "crash") =>
          /\ (BothInt /\ Literal.tag = "double") => ret = ComparisonTypeMismatch
          /\ (Mixed /\ Literal.tag = "int64_t") => ret = ComparisonTypeMismatch
          /\ (Mixed /\ aop = "ADD" /\ Literal.tag = "double") => ret.kind = "return"

(***************************************************************************)
(* C12, amended: the comparison is reached only when the arithmetic has    *)
(* returned a value.  With a right operand of DIVIDE other than zero, a    *)
(* call that returns to its caller throws the operand-type mismatch error  *)
(* in the two cases above and returns a boolean for every double/int64_t   *)
(* result compared with a double literal; with a zero right operand of     *)
(* DIVIDE the call throws "Division by zero" whatever the literal is.      *)
(***************************************************************************)
ArithmeticReturns == ~(aop = "DIVIDE" /\ Zero(rhs)) /\ ret.kind # "crash"

C12_VariantMeetsLiteralOnceComputed ==
    /\ C12_ResultVariant
    /\ (ret # NoCall /\ ArithmeticReturns) =>
          /\ (BothInt /\ Literal.tag = "double") => ret = ComparisonTypeMismatch
          /\ (Mixed /\ Literal.tag = "int64_t") => ret = ComparisonTypeMismatch
          /\ (Mixed /\ Literal.tag = "double") => ret.kind = "return"
    /\ (ret # NoCall /\ aop = "DIVIDE" /\ Zero(rhs) /\ Numeric(lhs)) =>
          ret = DivisionByZero

\* two int64_t keys multiplied and compared with the double literal 1/2
C12_Witness ==
    /\ BothInt /\ aop = "MULTIPLY"
    /\ pred.compiled /\ Literal = Double(1, 2)
    /\ ret = ComparisonTypeMismatch

(***************************************************************************)
(* C13, as stated: a condition of one Unary EQUAL sub-expression with      *)
(* literal V returns true exactly when the value the key resolves to is V, *)
(* alternative and value; and after a call that returned true, the next    *)
(* call of the same predicate returns false once the key holds any other   *)
(* value.                                                                  *)
(***************************************************************************)
SingleEqual ==
    /\ Called
    /\ Len(Cond) = 1
    /\ Cond[1].expr.alt = "UnaryExpression"
    /\ Cond[1].expr.op = "EQUAL"
    /\ Cond[1].expr.key \in DOMAIN KeyMapNow

\* the value the sub-expression's key resolves to in the current record
Current == keys[KeyMapNow[Cond[1].expr.key]].value

\* the call before the last one returned true
ReturnedTrueBefore == Len(log) >= 2 /\ log[Len(log) - 1] = Returns(Bool(TRUE))

C13_EqualFlipsToFalse ==
    SingleEqual =>
        /\ ret = Returns(Bool(TRUE)) <=> Current = Literal
        /\ (ReturnedTrueBefore /\ Current # Literal) => ret = Returns(Bool(FALSE))

(***************************************************************************)
(* C13, amended: the call returns true exactly when the key's value is V;  *)
(* after a call that returned true, the next call returns false once the   *)
(* key holds another value of V's alternative, and throws "Type mismatch   *)
(* in comparison" once it holds a value of another alternative.            *)
(***************************************************************************)
C13_EqualFollowsValue ==
    SingleEqual =>
        /\ ret = Returns(Bool(TRUE)) <=> Current = Literal
        /\ (Current # Literal /\ Current.tag = Literal.tag) =>
               ret = Returns(Bool(FALSE))
        /\ Current.tag # Literal.tag => ret = ComparisonTypeMismatch

\* a == 1 returned true on a = 1 and returns false after a.setValue(0)
C13_Witness ==
    /\ SingleEqual
    /\ ReturnedTrueBefore
    /\ Literal = Int64(1) /\ Current = Int64(0)
    /\ ret = Returns(Bool(FALSE))

(***************************************************************************)
(* C14: a predicate carries nothing from one call to the next.  Whatever   *)
(* calls came before, on whatever records and however they ended, a call   *)
(* ends as the loop started afresh on the compiled condition and the       *)
(* record of that call ends: an index built from that record alone, the    *)
(* accumulator at true.  So a key an earlier record held and the current   *)
(* one lacks is "Key not found", and a call that threw leaves no trace in  *)
(* the calls after it.                                                     *)
(***************************************************************************)
FreshOutcomes == {call.out : call \in Loop(Cond, keys, KeyMapNow, 1, TRUE)}

\* the name the first sub-expression looks up first
FirstKey ==
    IF Cond[1].expr.alt = "UnaryExpression"
    THEN Cond[1].expr.key
    ELSE Cond[1].expr.left_key

OutcomesOn(record) == {call.out : call \in Predicate(Captured, record)}

C15_OwnsItsCondition ==
    [][/\ (~pred.compiled /\ pred'.compiled) => pred'.condition = cond
       /\ (pred.compiled /\ cond' # cond) =>
              /\ pred' = pred
              /\ \A record \in OwnRecords : OutcomesOn(record)' = OutcomesOn(record)]_vars

\* a call made after the caller's object changed, ending as the compiled
\* condition ends and not as the caller's object would
C15_Witness ==
    /\ Called
    /\ cond # Cond
    /\ ret = Returns(Bool(TRUE))
    /\ \A call \in Predicate(cond, keys) : call.out # ret

(***************************************************************************)
(* C16: parse never fails and looks at no record.  It gives a predicate    *)
(* holding the condition for every condition -- those naming keys no       *)
(* record holds, applying an ordering operator to a bool literal or        *)
(* carrying the tag NOT included -- and an exception is only ever thrown   *)
(* by a call of the predicate, while it works on a sub-expression.         *)
(***************************************************************************)
AllConditions == FoldConditions \cup ExprConditions \cup CallConditions

C17_UnsupportedTag ==
    Called =>
        \A j \in Positions :
            (/\ Tag(j) \notin {"AND", "OR", "NONE"}
             /\ SubOut(j).kind = "return"
             /\ \A i \in 1..(j - 1) : ~SubFails(i)) =>
                 ret = UnsupportedLogical /\ evaluated = j

\* NOT on the first of several sub-expressions, its own result true
C17_Witness ==
    /\ Called
    /\ Len(Cond) >= 2
    /\ Tag(1) = "NOT"
    /\ SubOut(1) = Returns(Bool(TRUE))
    /\ ret = UnsupportedLogical
    /\ evaluated = 1

(***************************************************************************)
(* C18: calls of one predicate running at the same time on records of      *)
(* their own do not interfere.  However the steps of the two calls         *)
(* interleave, a call ends as a call of the predicate on its record ends   *)
(* when it runs alone.                                                     *)
(***************************************************************************)
AloneOn(record) == {call.out : call \in Predicate(Cond, record)}

C18_NoInterference ==
    \A t \in Threads :
        th[t].pc = "done" => th[t].out \in AloneOn(th[t].record)

\* two overlapping calls on different records, both ended, one with true and
\* one with "Division by zero"
C18_Witness ==
    /\ th[1].pc = "done" /\ th[1].overlapped
    /\ th[2].pc = "done" /\ th[2].overlapped
    /\ th[1].record # th[2].record
    /\ th[1].out = Returns(Bool(TRUE))
    /\ th[2].out = DivisionByZero

(***************************************************************************)
(* C19: when several Keys of a record have the same name, every lookup of  *)
(* that name gives the value of the last of them in record order, and the  *)
(* Keys before it count for nothing: the call ends as it ends on the       *)
(* record with those earlier Keys taken out.                               *)
(***************************************************************************)
\* position of the last Key named nm
LastIndex(record, nm) ==
    CHOOSE i \in 1..Len(record) :
        /\ record[i].name = nm
        /\ \A j \in (i + 1)..Len(record) : record[j].name # nm

\* the record without the Keys that a later Key of the same name follows
RECURSIVE LastOnly(_, _)
LastOnly(record, i) ==
    IF i > Len(record) THEN <<>>
    ELSE (IF LastIndex(record, record[i].name) = i THEN <<record[i]>> ELSE <<>>)
         \o LastOnly(record, i + 1)

C19_LastKeyWins ==
    /\ \A nm \in Names(keys) :
          getValueFromKeyMap(KeyMapNow, nm) = Pointer(LastIndex(keys, nm))
    /\ Called => ret \in {call.out : call \in Predicate(Cond, LastOnly(keys, 1))}

\* the record {a: 0, a: 1}: a == 1 is true
C19_Witness ==
    /\ Called
    /\ keys = <<Key("a", Int64(0)), Key("a", Int64(1))>>
    /\ Cond = <<SubExpression(UnaryExpression("EQUAL", "a", Int64(1)), "NONE")>>
    /\ ret = Returns(Bool(TRUE))

(***************************************************************************)
(* The previous evaluator: LanguageParser::parse as it was before the      *)
(* index, looking every key up with a linear search of the record.  Its    *)
(* evaluateArithmetic is the same text and its evaluateComparison, written *)
(* out once per alternative, decides every operator of the enumeration as  *)
(* the present one does; for a value outside the enumeration its bool      *)
(* branch ends in the default that names the boolean.  The switch on       *)
(* prev_logical_op is the same.                                            *)
(***************************************************************************)
\* part_002 evaluateComparison: one switch per alternative
evaluateComparisonLinear(left, op, right) ==
    IF left.tag # right.tag THEN ComparisonTypeMismatch
    ELSE IF left.tag = "bool" /\ op \notin {"EQUAL", "NOT_EQUAL"} THEN UnsupportedBoolean
    ELSE evaluateComparison(left, op, right)

\* std::find_if from keys.begin(): the first Key of that name
getValueFromKey(record, keyName) ==
    IF \E i \in 1..Len(record) : record[i].name = keyName
    THEN Returns(record[CHOOSE i \in 1..Len(record) :
                           /\ record[i].name = keyName
                           /\ \A j \in 1..(i - 1) : record[j].name # keyName].value)
    ELSE KeyNotFound(keyName)

SubResultLinear(record, subExpr) ==
    LET expr == subExpr.expr IN
    IF expr.alt = "UnaryExpression" THEN
        LET keyValue == getValueFromKey(record, expr.key) IN
        IF keyValue.kind # "return" THEN {keyValue}
        ELSE {evaluateComparisonLinear(keyValue.val, expr.op, expr.value)}
    ELSE IF expr.alt = "BinaryExpression" THEN
        LET leftValue == getValueFromKey(record, expr.left_key) IN
        IF leftValue.kind # "return" THEN {leftValue}
        ELSE
        LET rightValue == getValueFromKey(record, expr.right_key) IN
        IF rightValue.kind # "return" THEN {rightValue}
        ELSE
        { IF arithResult.kind # "return" THEN arithResult
          ELSE evaluateComparisonLinear(arithResult.val, expr.comp_op, expr.value) :
            arithResult \in evaluateArithmetic(leftValue.val, expr.arith_op,
                                               rightValue.val) }
    ELSE {UnknownExpression}

RECURSIVE LoopLinear(_, _, _, _)
LoopLinear(condition, record, i, result) ==
    IF i > Len(condition) THEN {Finished(Returns(Bool(result)), i - 1)}
    ELSE UNION { IF subResult.kind # "return" THEN {Finished(subResult, i)}
                 ELSE LET step == Combine(result, condition[i].prev_logical_op,
                                          subResult.val.b)
                      IN IF step.kind # "return" THEN {Finished(step, i)}
                         ELSE LoopLinear(condition, record, i + 1, step.val.b) :
                   subResult \in SubResultLinear(record, condition[i]) }

PredicateLinear(condition, record) == LoopLinear(condition, record, 1, TRUE)

(***************************************************************************)
(* C20: the evaluator with the index is a drop-in replacement for the      *)
(* previous one: on every condition and every record, records with         *)
(* repeated names included, a call ends -- boolean or exception -- as the  *)
(* previous evaluator's call ends.                                         *)
(***************************************************************************)
C20_DropInReplacement ==
    Called => ret \in {call.out : call \in PredicateLinear(Cond, keys)}

(***************************************************************************)
(* C21: for int64_t a and b whose sum is within the range of the type,     *)
(* ADD applied to (a, b) returns an int64_t from which SUBTRACT of b gives *)
(* back the int64_t a.                                                     *)
(***************************************************************************)
C21_AddThenSubtract ==
    (arith # NoCall /\ aop = "ADD" /\ BothInt /\ InRange(lhs.n + rhs.n)) =>
        /\ arith.kind = "return"
        /\ evaluateArithmetic(arith.val, "SUBTRACT", rhs) = {Returns(lhs)}

\* the largest int64_t plus -1
C21_Witness ==
    /\ aop = "ADD"
    /\ lhs = Int64(IntMax) /\ rhs = Int64(0 - 1)
    /\ arith = Returns(Int64(IntMax - 1))

C23_TotalOnIntegers ==
    (arith # NoCall /\ BothInt) =>
        \/ /\ arith.kind = "return"
           /\ arith.val.tag = "int64_t"
           /\ InRange(arith.val.n)
        \/ /\ arith = DivisionByZero
           /\ aop = "DIVIDE" /\ rhs.n = 0

(***************************************************************************)
(* C24: on two int64_t operands and on two string operands each of the six *)
(* comparison operators returns -- it never throws -- the relation it      *)
(* names: the order of the integers, the byte-wise lexicographic order of  *)
(* the strings in which a proper prefix is the smaller.  The operators     *)
(* agree with each other: NOT_EQUAL negates EQUAL, GREATER_EQUAL negates   *)
(* LESS_THAN, LESS_EQUAL negates GREATER_THAN.                             *)
(***************************************************************************)
\* l before r in the lexicographic order: they agree on the first k bytes and
\* then l ends and r goes on, or l has the smaller byte
LexLess(l, r) ==
    \E k \in 0..Len(l) :
        /\ k <= Len(r)
        /\ \A j \in 1..k : l[j] = r[j]
        /\ \/ k = Len(l) /\ k < Len(r)
           \/ k < Len(l) /\ k < Len(r) /\ l[k + 1] < r[k + 1]

Before(l, r) == IF l.tag = "string" THEN LexLess(l.s, r.s) ELSE l.n < r.n

Same(l, r) == IF l.tag = "string" THEN l.s = r.s ELSE l.n = r.n

Relation(op, l, r) ==
    CASE op = "EQUAL" -> Same(l, r)
      [] op = "NOT_EQUAL" -> ~Same(l, r)
      [] op = "GREATER_THAN" -> Before(r, l)
      [] op = "LESS_THAN" -> Before(l, r)
      [] op = "GREATER_EQUAL" -> Before(r, l) \/ Same(l, r)
      [] op = "LESS_EQUAL" -> Before(l, r) \/ Same(l, r)

Negates(op, other) ==
    /\ evaluateComparison(lhs, op, rhs).kind = "return"
    /\ evaluateComparison(lhs, other, rhs).kind = "return"
    /\ evaluateComparison(lhs, op, rhs).val.b = ~evaluateComparison(lhs, other, rhs).val.b

C24_ComparisonIsTheRelation ==
    (cmp # NoCall /\ lhs.tag = rhs.tag /\ lhs.tag \in {"int64_t", "string"}) =>
        /\ cmp = Returns(Bool(Relation(cop, lhs, rhs)))
        /\ Negates("NOT_EQUAL", "EQUAL")
        /\ Negates("GREATER_EQUAL", "LESS_THAN")
        /\ Negates("LESS_EQUAL", "GREATER_THAN")

\* "a" is a proper prefix of "ab": "ab" > "a"
C24_Witness ==
    /\ lhs = String(<<97, 98>>) /\ rhs = String(<<97>>)
    /\ cop = "GREATER_THAN"
    /\ cmp = Returns(Bool(TRUE))

(***************************************************************************)
(* C25, as stated: an ordering comparison (GREATER_THAN, LESS_THAN,        *)
(* GREATER_EQUAL, LESS_EQUAL) of a boolean against another boolean is      *)
(* reported with the error of kind TypeMismatch, the one thrown for        *)
(* operands of differing alternatives.                                     *)
(***************************************************************************)
BoolOrdering ==
    /\ cmp # NoCall
    /\ lhs.tag = "bool" /\ rhs.tag = "bool"
    /\ cop \in OrderingOperations

C25_BoolOrderingIsTypeMismatch == BoolOrdering => cmp = ComparisonTypeMismatch

(***************************************************************************)
(* C25, amended: an ordering comparison of a boolean against another       *)
(* boolean is reported with the error of kind UnsupportedOperation         *)
(* ("Unsupported comparison operation for boolean"), whatever the two      *)
(* booleans are; it is never the TypeMismatch error, which is kept for     *)
(* operands of differing alternatives.                                     *)
(***************************************************************************)
C25_BoolOrderingIsUnsupported ==
    /\ BoolOrdering => cmp = UnsupportedBoolean /\ cmp # ComparisonTypeMismatch
    /\ (cmp # NoCall /\ lhs.tag = "bool" /\ rhs.tag # "bool") =>
            cmp = ComparisonTypeMismatch

C25_Witness ==
    /\ lhs = Bool(TRUE) /\ rhs = Bool(TRUE) /\ cop = "GREATER_EQUAL"
    /\ cmp = UnsupportedBoolean

(***************************************************************************)
(* C26: Evaluator is a pure wrapper around the compiled predicate.  After  *)
(* any sequence of initialize calls, what evaluate(keys) gives is an       *)
(* outcome of LanguageParser::parse(c)(keys), c being the condition passed *)
(* to the most recent initialize; the conditions passed before it have no  *)
(* influence.                                                              *)
(***************************************************************************)
Initialized == log # <<>>

LastCondition == log[Len(log)]

C26_WrapsLastCondition ==
    (Initialized /\ ret.kind # "none") =>
        /\ pred = parse(LastCondition)
        /\ Finished(ret, evaluated) \in Predicate(parse(LastCondition).condition, keys)

C26_Witness ==
    /\ Len(log) = 2
    /\ log[1] = <<SubExpression(UnaryExpression("EQUAL", "a", Int64(1)), "NONE")>>
    /\ log[2] = <<SubExpression(UnaryExpression("NOT_EQUAL", "a", Int64(1)), "NONE")>>
    /\ keys = <<Key("a", Int64(1))>>
    /\ ret = Returns(Bool(FALSE))

(***************************************************************************)
(* C30: Evaluator::evaluate called before any initialize never returns a   *)
(* boolean, whatever the record is: it throws the empty-function error,    *)
(* which is none of the errors the library throws.  From the first         *)
(* initialize on it never throws that error and gives what the compiled    *)
(* predicate gives.                                                        *)
(***************************************************************************)
LibraryMessages ==
    {e.what : e \in {KeyNotFound(""), DivisionByZero, ArithmeticTypeMismatch,
                     ComparisonTypeMismatch, UnsupportedBoolean, UnsupportedLogical,
                     UnsupportedArithmetic, UnsupportedComparison, UnsupportedType,
                     UnknownExpression}}

C30_EmptyUntilInitialized ==
    /\ (~Initialized /\ ret.kind # "none") =>
            /\ ret = BadFunctionCall
            /\ ret.kind = "throw" /\ ret.what \notin LibraryMessages
            /\ evaluated = 0
    /\ (Initialized /\ ret.kind # "none") =>
            /\ ret # BadFunctionCall
            /\ ret \in {call.out : call \in Predicate(pred.condition, keys)}

C30_Witness ==
    /\ ~Initialized
    /\ keys = <<Key("a", Int64(1))>>
    /\ ret = BadFunctionCall

C30_WitnessAfter ==
    /\ Len(log) = 1
    /\ keys = <<>>
    /\ ret = KeyNotFound("a")

(***************************************************************************)
(* C27: within one sub-expression the checks run in a fixed order and the  *)
(* first one that fails decides the error.  Unary: resolve the key, then   *)
(* compare.  Binary: resolve left_key, then right_key, then the            *)
(* arithmetic, then the comparison.  The logical tag is looked at only     *)
(* after that.  So a Binary with both keys missing reports KeyNotFound     *)
(* for left_key; one whose left value is text and whose right_key is       *)
(* missing reports KeyNotFound for right_key; a DIVIDE by zero with a      *)
(* literal of another alternative reports DivisionByZero; and a            *)
(* sub-expression tagged NOT whose key is missing reports KeyNotFound.     *)
(***************************************************************************)
Has(keyName) == keyName \in Names(keys)

ValueOf(keyName) == keys[CHOOSE i \in 1..Len(keys) : keys[i].name = keyName].value

\* the last two checks: the comparison, then the logical tag
ThenCompared(value, op, literal) ==
    LET compared == evaluateComparison(value, op, literal) IN
    IF compared.kind # "return" THEN ret = compared
    ELSE IF Tag(1) \notin {"AND", "OR", "NONE"} THEN ret = UnsupportedLogical
    ELSE ret.kind = "return"

ChecksInOrder ==
    LET e == Cond[1].expr IN
    IF e.alt = "UnaryExpression" THEN
        IF ~Has(e.key) THEN ret = KeyNotFound(e.key)
        ELSE ThenCompared(ValueOf(e.key), e.op, e.value)
    ELSE
        IF ~Has(e.left_key) THEN ret = KeyNotFound(e.left_key)
        ELSE IF ~Has(e.right_key) THEN ret = KeyNotFound(e.right_key)
        ELSE \E a \in evaluateArithmetic(ValueOf(e.left_key), e.arith_op,
                                          ValueOf(e.right_key)) :
                IF a.kind # "return" THEN ret = a
                ELSE ThenCompared(a.val, e.comp_op, e.value)

C27_FirstFailingCheckDecides ==
    (Called /\ Len(Cond) = 1) =>
        LET e == Cond[1].expr IN
        /\ ChecksInOrder
        /\ (e.alt = "BinaryExpression" /\ keys = <<>>) => ret = KeyNotFound(e.left_key)
        /\ (e.alt = "BinaryExpression" /\ Has(e.left_key) /\ ~Has(e.right_key)
                /\ ValueOf(e.left_key).tag = "string") =>
               ret = KeyNotFound(e.right_key) /\ ret # ArithmeticTypeMismatch
        /\ (e.alt = "BinaryExpression" /\ e.arith_op = "DIVIDE"
                /\ Has(e.left_key) /\ Has(e.right_key)
                /\ ValueOf(e.left_key).tag = "int64_t"
                /\ ValueOf(e.right_key) = Int64(0) /\ e.value.tag # "int64_t") =>
               ret = DivisionByZero
        /\ (Tag(1) = "NOT" /\ keys = <<>>) =>
               ret.what = KeyNotFound("").what /\ ret # UnsupportedLogical

C27_Witness ==
    /\ Called
    /\ Cond = <<SubExpression(BinaryExpression("a", "DIVIDE", "b", "EQUAL", Int64(1)), "NOT")>>
    /\ keys = <<Key("a", String(<<97>>))>>
    /\ ret = KeyNotFound("b")

C27_WitnessDivide ==
    /\ Called
    /\ Cond[1].expr = BinaryExpression("a", "DIVIDE", "b", "EQUAL", String(<<97>>))
    /\ Len(keys) = 2 /\ ValueOf("a") = Int64(1) /\ ValueOf("b") = Int64(0)
    /\ ret = DivisionByZero

C27_WitnessTagLast ==
    /\ Called
    /\ Cond = <<SubExpression(UnaryExpression("EQUAL", "a", Int64(1)), "NOT")>>
    /\ keys = <<Key("a", Int64(1))>>
    /\ ret = UnsupportedLogical

(***************************************************************************)
(* C28: on every condition and every record whose key names are pairwise   *)
(* distinct, the evaluator with the hash map and the one with the linear   *)
(* search end alike: the same boolean, or a failure at the same            *)
(* sub-expression with an error of the same kind.  They can differ only on *)
(* a record that repeats a name: there the linear search reads the first   *)
(* Key of the name and the hash map the last.                              *)
(***************************************************************************)
\* the kind of error a ParseException stands for
ErrorKind(out) ==
    CASE out.what = KeyNotFound("").what -> "KeyNotFound"
      [] out.what = DivisionByZero.what -> "DivisionByZero"
      [] out.what \in {ArithmeticTypeMismatch.what, ComparisonTypeMismatch.what} ->
            "TypeMismatch"
      [] OTHER -> "UnsupportedOperation"

Agree(call, other) ==
    /\ call.evaluated = other.evaluated
    /\ call.out.kind = other.out.kind
    /\ call.out.kind = "return" => call.out = other.out
    /\ call.out.kind = "throw" =>
          ErrorKind(call.out) = ErrorKind(other.out) /\ call.out.key = other.out.key

DistinctNames(record) ==
    \A i, j \in 1..Len(record) : record[i].name = record[j].name => i = j

\* the record without the Keys that an earlier Key of the same name precedes
RECURSIVE FirstOnly(_, _)
FirstOnly(record, i) ==
    IF i > Len(record) THEN <<>>
    ELSE (IF \A j \in 1..(i - 1) : record[j].name # record[i].name
          THEN <<record[i]>> ELSE <<>>)
         \o FirstOnly(record, i + 1)

AgreesWithLinearOn(record) ==
    \E other \in PredicateLinear(Cond, record) : Agree(Finished(ret, evaluated), other)

C28_WitnessRepeated ==
    /\ Called
    /\ ~DistinctNames(keys)
    /\ ~AgreesWithLinearOn(keys)

\* a bool compared with an operator outside the enumeration
C28_WitnessOutOfRange ==
    /\ Called
    /\ DistinctNames(keys)
    /\ ret = UnsupportedComparison
    /\ Finished(UnsupportedBoolean, 1) \in PredicateLinear(Cond, keys)

(***************************************************************************)
(* C29: the accumulator starts at true, so the tag of the first            *)
(* sub-expression matters.  Tagged AND or NONE, the accumulator after it   *)
(* is its result r1; tagged OR, the accumulator after it is true whatever  *)
(* r1 is.  A one-element condition tagged OR therefore returns true on     *)
(* every record on which its sub-expression does not fail.                 *)
(***************************************************************************)
\* the accumulator after the first sub-expression, as the statement has it
AfterFirst ==
    CASE Tag(1) \in {"AND", "NONE"} -> R(1)
      [] Tag(1) = "OR" -> TRUE

FirstFolds == Tag(1) \in {"AND", "OR", "NONE"} /\ SubOut(1).kind = "return"

C29_FirstTagMatters ==
    /\ (Called /\ Len(Cond) = 1 /\ FirstFolds) => ret = Returns(Bool(AfterFirst))
    /\ (Called /\ Len(Cond) = 1 /\ Tag(1) = "OR" /\ SubOut(1).kind = "return") =>
          ret = Returns(Bool(TRUE))
    /\ (Called /\ Len(Cond) = 2 /\ FirstFolds /\ SubOut(2).kind = "return") =>
          /\ Tag(2) = "AND" => ret = Returns(Bool(AfterFirst /\ R(2)))
          /\ Tag(2) = "OR" => ret = Returns(Bool(AfterFirst \/ R(2)))

C29_Witness ==
    /\ Called
    /\ Cond = <<SubExpression(UnaryExpression("EQUAL", "a", Int64(1)), "OR")>>
    /\ keys = <<Key("a", Int64(0))>>
    /\ ret = Returns(Bool(TRUE))

\* r1 false under OR, then a true result under AND: the accumulator was true
C29_WitnessSecond ==
    /\ Called
    /\ Len(Cond) = 2 /\ Tag(1) = "OR" /\ Tag(2) = "AND"
    /\ SubOut(1) = Returns(Bool(FALSE)) /\ SubOut(2) = Returns(Bool(TRUE))
    /\ ret = Returns(Bool(TRUE))

====
